---- MODULE Spec2Model ----
(***************************************************************************)
(* Model of the data-analyst responder: the task router                    *)
(* (api/index.py, process_analysis_task), the Wikipedia films scraper      *)
(* (services/web_scraper.py) and the statistics operations                 *)
(* (services/data_processor.py).                                           *)
(*                                                                         *)
(* Python strings are TLA+ strings and are processed character by          *)
(* character (lower(), `in`, strip(), the regular expressions), so case    *)
(* folding and parsing are computed, not assumed.                          *)
(***************************************************************************)
EXTENDS Integers, Sequences, FiniteSets, TLC

VARIABLES
    task_data,      \* the argument of process_analysis_task
    pc,             \* position of the request inside process_analysis_task
    domain,         \* branch taken at index.py:122/153/157
    qi,             \* index of the next question of the for loop (index.py:126)
    results,        \* the local list `results`
    returned,       \* the value returned to the caller (once pc = "done")
    raised,         \* TRUE iff an exception left process_analysis_task
    fetches,        \* number of session.get calls made so far
    page,           \* the document served at the films URL (environment)
    fetch_ok,       \* outcome of session.get / raise_for_status
    sc_pc,          \* position inside _scrape_films_sync
    ti,             \* index of the next table of the loop at web_scraper.py:47
    films_data,     \* the local list films_data of _scrape_films_sync
    scraped_data,   \* the value scrape_wikipedia_films returned
    st_pc,          \* position of the statistics driver
    st_data,        \* argument `data` of the statistics operations
    st_year,        \* argument `year`
    st_min,         \* argument `min_gross` (in millionths of a billion)
    st_count,       \* value returned by count_films_before_year
    st_earliest,    \* value returned by find_earliest_film_over_amount
    st_calls,       \* log of the statistics calls made on st_data, oldest first
    st_given,       \* the records as the caller passed them to the first call
    fx_pc,          \* position of the revenue-extraction driver
    fx_row,         \* row.values handed to _extract_revenue_billions
    fx_rev,         \* value returned by _extract_revenue_billions
    rs_pc,          \* position of the column-resolution driver
    rs_x,           \* argument col1 / x_col
    rs_y,           \* argument col2 / y_col
    rs_found,       \* <<x_col, y_col>> as _find_column resolved them
    rs_corr,        \* value returned by calculate_correlation
    rs_chart,       \* value returned by prepare_chart_data
    rq_pc,          \* position of each concurrent request
    rq_kind,        \* domain of each concurrent request
    session,        \* state of the module-level requests.Session
    sess_wrote,     \* requests that have written the Session's state
    sess_read,      \* requests that have read the Session's state
    ch_pc,          \* position inside create_scatterplot_with_regression
    ch_data,        \* arguments of the render call
    ch_fault,       \* steps of the render call at which the library raises
    open_figs,      \* figures open in pyplot's registry
    ch_result,      \* value returned by the render call
    ch_msg,         \* argument error_message of _create_error_chart
    ch_before,      \* figures open when the render call was made
    ap_pc,          \* position inside analyze_data
    ap_file,        \* upload `file` of the POST
    ap_data,        \* form field `data` of the POST
    ap_status,      \* HTTP status of the response
    ap_detail       \* detail of the HTTPException that left analyze_data

vars == <<task_data, pc, domain, qi, results, returned, raised, fetches,
          page, fetch_ok, sc_pc, ti, films_data, scraped_data,
          st_pc, st_data, st_year, st_min, st_count, st_earliest,
          st_calls, st_given, fx_pc, fx_row, fx_rev,
          rs_pc, rs_x, rs_y, rs_found, rs_corr, rs_chart,
          rq_pc, rq_kind, session, sess_wrote, sess_read,
          ch_pc, ch_data, ch_fault, open_figs, ch_result, ch_msg, ch_before,
          ap_pc, ap_file, ap_data, ap_status, ap_detail>>

routerVars  == <<task_data, pc, domain, qi, results, returned, raised>>
scraperVars == <<page, fetch_ok, sc_pc, ti, films_data, scraped_data, fetches>>
statsVars   == <<st_pc, st_data, st_year, st_min, st_count, st_earliest>>
pureVars    == <<st_calls, st_given>>
fieldVars   == <<fx_pc, fx_row, fx_rev>>
resolveVars == <<rs_pc, rs_x, rs_y, rs_found, rs_corr, rs_chart>>
concVars    == <<rq_pc, rq_kind, session, sess_wrote, sess_read>>
chartVars   == <<ch_pc, ch_data, ch_fault, open_figs, ch_result, ch_msg, ch_before>>
apiVars     == <<ap_pc, ap_file, ap_data, ap_status, ap_detail>>
auxVars     == <<pureVars, fieldVars, resolveVars, concVars, chartVars>>

-----------------------------------------------------------------------------
(* Bounds of the model *)

MaxQuestions == 2      \* questions per task
MaxTables    == 2      \* tables per page
MaxRecords   == 2      \* records per statistics input drawn from the palette
BigTableRows == 51     \* data rows of the long table of the page palette
MaxCalls     == 3      \* statistics calls made on one record sequence
MaxValues    == 2      \* values per row handed to the revenue extraction
NumRequests  == 2      \* requests handled concurrently
MaxOpenBefore == 1     \* figures open before a render call

-----------------------------------------------------------------------------
(* Python strings *)

Char(s, i) == SubSeq(s, i, i)

DigitChars == {"0", "1", "2", "3", "4", "5", "6", "7", "8", "9"}
LowerChars == {"a", "b", "c", "d", "e", "f", "g", "h", "i", "j", "k", "l", "m",
               "n", "o", "p", "q", "r", "s", "t", "u", "v", "w", "x", "y", "z"}
UpperChars == {"A", "B", "C", "D", "E", "F", "G", "H", "I", "J", "K", "L", "M",
               "N", "O", "P", "Q", "R", "S", "T", "U", "V", "W", "X", "Y", "Z"}
SpaceChars == {" ", "\t", "\n"}

IsDigit(c) == c \in DigitChars
IsSpace(c) == c \in SpaceChars
\* \w of the re module
IsWordChar(c) == c \in DigitChars \cup LowerChars \cup UpperChars \cup {"_"}

DigitVal(c) ==
    CASE c = "0" -> 0 [] c = "1" -> 1 [] c = "2" -> 2 [] c = "3" -> 3
      [] c = "4" -> 4 [] c = "5" -> 5 [] c = "6" -> 6 [] c = "7" -> 7
      [] c = "8" -> 8 [] c = "9" -> 9

DigitChar(d) ==
    CASE d = 0 -> "0" [] d = 1 -> "1" [] d = 2 -> "2" [] d = 3 -> "3"
      [] d = 4 -> "4" [] d = 5 -> "5" [] d = 6 -> "6" [] d = 7 -> "7"
      [] d = 8 -> "8" [] d = 9 -> "9"

LowerChar(c) ==
    CASE c = "A" -> "a" [] c = "B" -> "b" [] c = "C" -> "c" [] c = "D" -> "d"
      [] c = "E" -> "e" [] c = "F" -> "f" [] c = "G" -> "g" [] c = "H" -> "h"
      [] c = "I" -> "i" [] c = "J" -> "j" [] c = "K" -> "k" [] c = "L" -> "l"
      [] c = "M" -> "m" [] c = "N" -> "n" [] c = "O" -> "o" [] c = "P" -> "p"
      [] c = "Q" -> "q" [] c = "R" -> "r" [] c = "S" -> "s" [] c = "T" -> "t"
      [] c = "U" -> "u" [] c = "V" -> "v" [] c = "W" -> "w" [] c = "X" -> "x"
      [] c = "Y" -> "y" [] c = "Z" -> "z" [] OTHER -> c

\* str.lower()
RECURSIVE Lower(_)
Lower(s) == IF s = "" THEN "" ELSE LowerChar(Head(s)) \o Lower(Tail(s))

\* `pat in s`
Contains(pat, s) ==
    \E i \in 1..(Len(s) - Len(pat) + 1) : SubSeq(s, i, i + Len(pat) - 1) = pat

\* s.find(pat) + 1, 0 when absent
IndexOf(pat, s) ==
    IF Contains(pat, s)
    THEN CHOOSE i \in 1..(Len(s) - Len(pat) + 1) :
            /\ SubSeq(s, i, i + Len(pat) - 1) = pat
            /\ \A j \in 1..(i - 1) : SubSeq(s, j, j + Len(pat) - 1) # pat
    ELSE 0

\* str.strip()
RECURSIVE LStrip(_)
LStrip(s) == IF s # "" /\ IsSpace(Head(s)) THEN LStrip(Tail(s)) ELSE s

RECURSIVE RStrip(_)
RStrip(s) ==
    IF s # "" /\ IsSpace(Char(s, Len(s))) THEN RStrip(SubSeq(s, 1, Len(s) - 1)) ELSE s

Strip(s) == RStrip(LStrip(s))

\* str.replace(c, '') for a one-character c
RECURSIVE RemoveChar(_, _)
RemoveChar(s, c) ==
    IF s = "" THEN ""
    ELSE (IF Head(s) = c THEN "" ELSE Head(s)) \o RemoveChar(Tail(s), c)

\* int(digits) for a run of decimal digits
RECURSIVE StrToNat(_)
StrToNat(s) ==
    IF s = "" THEN 0
    ELSE StrToNat(SubSeq(s, 1, Len(s) - 1)) * 10 + DigitVal(Char(s, Len(s)))

\* str(n) for a natural number
RECURSIVE NatToStr(_)
NatToStr(n) == IF n < 10 THEN DigitChar(n) ELSE NatToStr(n \div 10) \o DigitChar(n % 10)

\* The first maximal run of characters of `cs` in s, "" when there is none:
\* re.findall(r'[cs]+', s)[0]
RECURSIVE TakeWhile(_, _)
TakeWhile(s, cs) ==
    IF s # "" /\ Head(s) \in cs THEN Head(s) \o TakeWhile(Tail(s), cs) ELSE ""

RECURSIVE FirstRun(_, _)
FirstRun(s, cs) ==
    IF s = "" THEN ""
    ELSE IF Head(s) \in cs THEN TakeWhile(s, cs) ELSE FirstRun(Tail(s), cs)

\* re.search(r'\b(19|20)\d{2}\b', s): position of the leftmost match, 0 if none
YearAt(s, i) ==
    /\ i + 3 <= Len(s)
    /\ SubSeq(s, i, i + 1) \in {"19", "20"}
    /\ IsDigit(Char(s, i + 2))
    /\ IsDigit(Char(s, i + 3))
    /\ (i = 1 \/ ~IsWordChar(Char(s, i - 1)))
    /\ (i + 3 = Len(s) \/ ~IsWordChar(Char(s, i + 4)))

YearPos(s) ==
    IF \E i \in 1..Len(s) : YearAt(s, i)
    THEN CHOOSE i \in 1..Len(s) : YearAt(s, i) /\ \A j \in 1..(i - 1) : ~YearAt(s, j)
    ELSE 0

\* re.sub(open .*? close, '', s) for one-character delimiters
RECURSIVE RemoveBracketed(_, _, _)
RemoveBracketed(s, open, close) ==
    LET i == IndexOf(open, s) IN
    IF i = 0 THEN s
    ELSE LET rest == SubSeq(s, i + 1, Len(s))
             j    == IndexOf(close, rest)
         IN  IF j = 0 THEN s
             ELSE SubSeq(s, 1, i - 1)
                    \o RemoveBracketed(SubSeq(rest, j + 1, Len(rest)), open, close)

-----------------------------------------------------------------------------
(* Python values: int, str, None, the floats a DataFrame makes of ints       *)
(* (n.0), NaN, and the Pearson coefficient num / sqrt(dx * dy).              *)

IntV(n)   == [t |-> "int",   n |-> n, a |-> 0, b |-> 0, s |-> ""]
FloatV(n) == [t |-> "float", n |-> n, a |-> 0, b |-> 0, s |-> ""]
StrV(s)   == [t |-> "str",   n |-> 0, a |-> 0, b |-> 0, s |-> s]
NoneV     == [t |-> "none",  n |-> 0, a |-> 0, b |-> 0, s |-> ""]
NaNV      == [t |-> "nan",   n |-> 0, a |-> 0, b |-> 0, s |-> ""]
CorrV(num, dx, dy) == [t |-> "corr", n |-> num, a |-> dx, b |-> dy, s |-> ""]

\* pd.isna(value)
IsNa(v) == v.t \in {"none", "nan"}

\* str(value)
ToStr(v) ==
    CASE v.t = "str"   -> v.s
      [] v.t = "int"   -> NatToStr(v.n)
      [] v.t = "float" -> NatToStr(v.n) \o ".0"
      [] v.t = "none"  -> "None"
      [] v.t = "nan"   -> "nan"
      [] OTHER         -> ""

\* Insertion-ordered dict: a sequence of [k, v] with distinct keys
DictHas(d, k) == \E i \in 1..Len(d) : d[i].k = k
DictGet(d, k) == d[CHOOSE i \in 1..Len(d) : d[i].k = k].v
DictSet(d, k, v) ==
    IF DictHas(d, k)
    THEN [i \in 1..Len(d) |-> IF d[i].k = k THEN [k |-> k, v |-> v] ELSE d[i]]
    ELSE Append(d, [k |-> k, v |-> v])
DictKeys(d) == [i \in 1..Len(d) |-> d[i].k]

Take(seq, n) == SubSeq(seq, 1, IF Len(seq) < n THEN Len(seq) ELSE n)

RECURSIVE Flatten(_)
Flatten(ss) == IF ss = <<>> THEN <<>> ELSE Head(ss) \o Flatten(Tail(ss))

-----------------------------------------------------------------------------
(* services/web_scraper.py *)

\* _normalize_header: the rewrite table in dict order
Normalizations ==
    << <<"worldwide gross", "worldwide_gross">>,
       <<"box office",      "worldwide_gross">>,
       <<"total gross",     "worldwide_gross">>,
       <<"film title",      "title">>,
       <<"movie",           "title">>,
       <<"release year",    "year">>,
       <<"year released",   "year">> >>

\* re.sub(r'[^\w\s]', '', h)
RECURSIVE RemoveSpecial(_)
RemoveSpecial(h) ==
    IF h = "" THEN ""
    ELSE (IF IsWordChar(Head(h)) \/ IsSpace(Head(h)) THEN Head(h) ELSE "")
            \o RemoveSpecial(Tail(h))

\* re.sub(r'\s+', '_', h)
RECURSIVE SpacesToUnderscore(_)
SpacesToUnderscore(h) ==
    IF h = "" THEN ""
    ELSE IF IsSpace(Head(h)) THEN "_" \o SpacesToUnderscore(LStrip(h))
    ELSE Head(h) \o SpacesToUnderscore(Tail(h))

_normalize_header(header) ==
    LET h == Strip(Lower(header))
        hits == {i \in 1..Len(Normalizations) : Contains(Normalizations[i][1], h)}
    IN  IF hits # {}
        THEN Normalizations[CHOOSE i \in hits : \A j \in hits : i <= j][2]
        ELSE SpacesToUnderscore(RemoveSpecial(h))

\* _clean_film_title
_clean_film_title(title) ==
    Strip(RemoveBracketed(RemoveBracketed(title, "[", "]"), "(", ")"))

\* _parse_number
_parse_number(text) ==
    LET run == FirstRun(text, DigitChars) IN
    IF run = "" THEN NoneV ELSE IntV(StrToNat(run))

\* _parse_year
_parse_year(text) ==
    LET p == YearPos(text) IN
    IF p = 0 THEN NoneV ELSE IntV(StrToNat(SubSeq(text, p, p + 3)))

\* A table is [wikitable, rows]; a row (tr) is [cells, raises]; a cell is
\* [th, text].  `raises` marks a row whose processing throws inside the try
\* block of _parse_films_table.
CellText(cell) == Strip(cell.text)        \* get_text(strip=True)

\* The body of the loop over enumerate(cells), lines 88-105
RECURSIVE FillFilm(_, _, _, _)
FillFilm(film_data, headers, cells, i) ==
    IF i > Len(cells) THEN film_data
    ELSE IF i > Len(headers) THEN FillFilm(film_data, headers, cells, i + 1)
    ELSE LET header    == headers[i]
             cell_text == CellText(cells[i])
             next ==
                IF header = "rank"
                THEN DictSet(film_data, "rank", _parse_number(cell_text))
                ELSE IF header \in {"title", "film"}
                THEN DictSet(film_data, "title", StrV(_clean_film_title(cell_text)))
                ELSE IF Contains("gross", header) \/ Contains("revenue", header)
                THEN DictSet(film_data, "worldwide_gross", StrV(cell_text))
                ELSE IF header = "year"
                THEN DictSet(film_data, "year", _parse_year(cell_text))
                ELSE IF header = "peak"
                THEN DictSet(film_data, "peak", _parse_number(cell_text))
                ELSE DictSet(film_data, header, StrV(cell_text))
         IN  FillFilm(next, headers, cells, i + 1)

\* A normalizer that also drops the rows whose rank does not parse
RECURSIVE ParseRowsRanked(_, _)
ParseRowsRanked(headers, rows) ==
    IF rows = <<>> THEN <<>>
    ELSE LET cells     == Head(rows).cells
             film_data == FillFilm(<<>>, headers, cells, 1)
             keep      == /\ Len(cells) >= 3
                          /\ DictHas(film_data, "title")
                          /\ DictGet(film_data, "title").s # ""
                          /\ DictHas(film_data, "rank") => DictGet(film_data, "rank") # NoneV
         IN  (IF keep THEN <<film_data>> ELSE <<>>) \o ParseRowsRanked(headers, Tail(rows))

\* Lines 82-108 for the rows after the header row
RECURSIVE ParseRows(_, _)
ParseRows(headers, rows) ==
    IF rows = <<>> THEN <<>>
    ELSE LET cells     == Head(rows).cells
             film_data == FillFilm(<<>>, headers, cells, 1)
             keep      == /\ Len(cells) >= 3
                          /\ DictHas(film_data, "title")
                          /\ DictGet(film_data, "title").s # ""
         IN  (IF keep THEN <<film_data>> ELSE <<>>) \o ParseRows(headers, Tail(rows))

\* The except branch returning the rows collected before the error
ParsePartial(table) ==
    LET bad   == {r \in 1..Len(table.rows) : table.rows[r].raises}
        first == IF bad = {} THEN Len(table.rows) + 1
                 ELSE CHOOSE r \in bad : \A q \in bad : r <= q
        header_row == table.rows[1].cells
        headers == [i \in 1..Len(header_row) |->
                       _normalize_header(CellText(header_row[i]))]
    IN  IF table.rows = <<>> \/ first = 1 THEN <<>>
        ELSE ParseRows(headers, SubSeq(table.rows, 2, first - 1))

\* _parse_films_table, with its except branch (lines 112-114)
_parse_films_table(table) ==
    IF \E r \in 1..Len(table.rows) : table.rows[r].raises
    THEN <<>>
    ELSE IF table.rows = <<>> THEN <<>>
    ELSE LET header_row == table.rows[1].cells
             headers == [i \in 1..Len(header_row) |->
                            _normalize_header(CellText(header_row[i]))]
         IN  ParseRows(headers, Tail(table.rows))

\* Lines 49-51: ' '.join of the lower-cased texts of all th cells of the table
RECURSIVE JoinSpace(_)
JoinSpace(ss) ==
    IF ss = <<>> THEN ""
    ELSE IF Len(ss) = 1 THEN ss[1]
    ELSE ss[1] \o " " \o JoinSpace(Tail(ss))

ThTexts(table) ==
    LET cellsOf == Flatten([r \in 1..Len(table.rows) |-> table.rows[r].cells])
    IN  SelectSeq(cellsOf, LAMBDA c : c.th)

TableAccepted(table) ==
    LET headers == [i \in 1..Len(ThTexts(table)) |-> Lower(CellText(ThTexts(table)[i]))]
        joined  == JoinSpace(headers)
    IN  \E keyword \in {"rank", "film", "worldwide", "gross"} : Contains(keyword, joined)

Film(rank, title, gross, year, peak) ==
    << [k |-> "rank",            v |-> IntV(rank)],
       [k |-> "title",           v |-> StrV(title)],
       [k |-> "worldwide_gross", v |-> StrV(gross)],
       [k |-> "year",            v |-> IntV(year)],
       [k |-> "peak",            v |-> IntV(peak)] >>

\* _get_sample_films_data
_get_sample_films_data ==
    << Film(1,  "Avatar",                       "$2.923 billion", 2009, 1),
       Film(2,  "Avengers: Endgame",            "$2.798 billion", 2019, 1),
       Film(3,  "Avatar: The Way of Water",     "$2.320 billion", 2022, 3),
       Film(4,  "Titanic",                      "$2.257 billion", 1997, 1),
       Film(5,  "Star Wars: The Force Awakens", "$2.071 billion", 2015, 5),
       Film(6,  "Avengers: Infinity War",       "$2.048 billion", 2018, 6),
       Film(7,  "Spider-Man: No Way Home",      "$1.921 billion", 2021, 7),
       Film(8,  "Jurassic World",               "$1.672 billion", 2015, 8),
       Film(9,  "The Lion King",                "$1.657 billion", 2019, 9),
       Film(10, "The Avengers",                 "$1.519 billion", 2012, 10) >>

\* films_data[:50], web_scraper.py:59
RecordLimit == 50

-----------------------------------------------------------------------------
(* services/data_processor.py *)

\* Revenue in billions, kept in millionths of a billion (2.257 is 2257000)
RevV(micro) == [t |-> "rev", n |-> micro, a |-> 0, b |-> 0, s |-> ""]

\* pd.DataFrame(data).columns: the keys in order of first appearance
RECURSIVE DataFrameColumns(_)
DataFrameColumns(data) ==
    IF data = <<>> THEN <<>>
    ELSE LET before == DataFrameColumns(SubSeq(data, 1, Len(data) - 1))
             keys   == DictKeys(data[Len(data)])
         IN  before \o SelectSeq(keys, LAMBDA k : \A i \in 1..Len(before) : before[i] # k)

\* The value iterrows() yields for record r and column col: a missing key is
\* NaN, and an int of a column that also holds a missing value is a float.
DataFrameCell(data, r, col) ==
    LET raw(i) == IF DictHas(data[i], col) THEN DictGet(data[i], col) ELSE NaNV
        numeric == \A i \in 1..Len(data) : raw(i).t \in {"int", "none", "nan"}
        holes   == \E i \in 1..Len(data) : IsNa(raw(i))
        ints    == \E i \in 1..Len(data) : raw(i).t = "int"
    IN  IF raw(r).t = "int"
        THEN (IF holes /\ numeric THEN FloatV(raw(r).n) ELSE raw(r))
        ELSE IF raw(r).t = "none" /\ ints /\ numeric THEN NaNV
        ELSE raw(r)

\* row.values of row r
DataFrameRow(data, r) ==
    LET cols == DataFrameColumns(data)
    IN  [c \in 1..Len(cols) |-> DataFrameCell(data, r, cols[c])]

\* _extract_year_from_row over row.values
RECURSIVE _extract_year_from_row(_)
_extract_year_from_row(values) ==
    IF values = <<>> THEN NoneV
    ELSE LET value == Head(values)
             str   == ToStr(value)
             p     == YearPos(str)
         IN  IF IsNa(value) \/ p = 0
             THEN _extract_year_from_row(Tail(values))
             ELSE IntV(StrToNat(SubSeq(str, p, p + 3)))

\* float(run) of a run of digits and points succeeds iff the run has a digit
\* and at most one point
CountChar(s, c) == Cardinality({i \in 1..Len(s) : Char(s, i) = c})
FloatParses(run) ==
    /\ CountChar(run, ".") <= 1
    /\ \E i \in 1..Len(run) : IsDigit(Char(run, i))

\* float(run) in thousandths (cell texts carry at most three decimals)
FloatMilli(run) ==
    LET dot  == IndexOf(".", run)
        ip   == IF dot = 0 THEN run ELSE SubSeq(run, 1, dot - 1)
        fp   == IF dot = 0 THEN "" ELSE SubSeq(run, dot + 1, Len(run))
        fp3  == SubSeq(fp \o "000", 1, 3)
    IN  StrToNat(ip) * 1000 + StrToNat(fp3)

\* A revenue extraction that gives up at the first candidate value
RECURSIVE ExtractRevenueFirstOnly(_)
ExtractRevenueFirstOnly(values) ==
    IF values = <<>> THEN NoneV
    ELSE LET value     == Head(values)
             value_str == RemoveChar(RemoveChar(ToStr(value), ","), "$")
             low       == Lower(value_str)
             numbers   == FirstRun(value_str, DigitChars \cup {"."})
             milli     == FloatMilli(numbers)
         IN  IF IsNa(value)
             THEN ExtractRevenueFirstOnly(Tail(values))
             ELSE IF \E keyword \in {"billion", "gross", "revenue"} : Contains(keyword, low)
             THEN (IF numbers = "" \/ ~FloatParses(numbers) THEN NoneV
                   ELSE IF Contains("billion", low) THEN RevV(milli * 1000)
                   ELSE IF Contains("million", low) THEN RevV(milli)
                   ELSE IF milli > 1000 * 1000 THEN RevV(milli)
                   ELSE RevV(milli * 1000))
             ELSE ExtractRevenueFirstOnly(Tail(values))

\* _extract_revenue_billions over row.values
RECURSIVE _extract_revenue_billions(_)
_extract_revenue_billions(values) ==
    IF values = <<>> THEN NoneV
    ELSE LET value     == Head(values)
             value_str == RemoveChar(RemoveChar(ToStr(value), ","), "$")
             low       == Lower(value_str)
             numbers   == FirstRun(value_str, DigitChars \cup {"."})
             milli     == FloatMilli(numbers)
         IN  IF IsNa(value)
             THEN _extract_revenue_billions(Tail(values))
             ELSE IF /\ \E keyword \in {"billion", "gross", "revenue"} : Contains(keyword, low)
                     /\ numbers # ""
                     /\ FloatParses(numbers)
             THEN (IF Contains("billion", low) THEN RevV(milli * 1000)
                   ELSE IF Contains("million", low) THEN RevV(milli)
                   ELSE IF milli > 1000 * 1000 THEN RevV(milli)
                   ELSE RevV(milli * 1000))
             ELSE _extract_revenue_billions(Tail(values))

\* _extract_title_from_row over row.index (cols) and row.values
TitleKeywords == {"title", "film", "movie", "name"}

_extract_title_from_row(cols, values) ==
    LET named == {c \in 1..Len(cols) :
                    \E keyword \in TitleKeywords : Contains(keyword, Lower(cols[c]))}
        long  == {c \in 1..Len(values) : values[c].t = "str" /\ Len(values[c].s) > 3}
    IN  IF named # {}
        THEN LET c == CHOOSE c \in named : \A d \in named : c <= d
             IN  Strip(RemoveBracketed(RemoveBracketed(ToStr(values[c]), "[", "]"), "(", ")"))
        ELSE IF long # {}
        THEN LET c == CHOOSE c \in long : \A d \in long : c <= d
             IN  SubSeq(values[c].s, 1, IF Len(values[c].s) < 50 THEN Len(values[c].s) ELSE 50)
        ELSE "Unknown"

\* Python truth of an Optional number: None and zero are false
Truthy(v) == v.t # "none" /\ v.n # 0

\* The test of line 32
CountsRow(values, year, min_gross) ==
    LET film_year == _extract_year_from_row(values)
        revenue   == _extract_revenue_billions(values)
    IN  /\ Truthy(film_year)
        /\ Truthy(revenue)
        /\ film_year.n < year
        /\ revenue.n >= min_gross

\* count_films_before_year
count_films_before_year(data, year, min_gross) ==
    IF data = <<>> THEN 0
    ELSE Cardinality({r \in 1..Len(data) : CountsRow(DataFrameRow(data, r), year, min_gross)})

\* The test of line 56
QualifiesRow(values, min_gross) ==
    LET film_year == _extract_year_from_row(values)
        revenue   == _extract_revenue_billions(values)
    IN  /\ Truthy(film_year)
        /\ Truthy(revenue)
        /\ revenue.n >= min_gross

\* The loop of lines 51-59: state is <<earliest_year, earliest_title>>,
\* earliest_year = 0 standing for None
RECURSIVE EarliestLoop(_, _, _, _)
EarliestLoop(data, r, min_gross, st) ==
    IF r > Len(data) THEN st
    ELSE LET values    == DataFrameRow(data, r)
             film_year == _extract_year_from_row(values)
             title     == _extract_title_from_row(DataFrameColumns(data), values)
             next == IF /\ QualifiesRow(values, min_gross)
                        /\ (st[1] = 0 \/ film_year.n < st[1])
                     THEN <<film_year.n, title>>
                     ELSE st
         IN  EarliestLoop(data, r + 1, min_gross, next)

\* find_earliest_film_over_amount
find_earliest_film_over_amount(data, min_gross) ==
    IF data = <<>> THEN "No data available"
    ELSE LET earliest_title == EarliestLoop(data, 1, min_gross, <<0, "Unknown">>)[2]
         IN  IF earliest_title # "" THEN earliest_title ELSE "Unknown"

\* A resolution that takes the first key matching exactly or in part
FindColumnFirstMatch(cols, target) ==
    LET target_lower == Lower(target)
        partial == {c \in 1..Len(cols) :
                      \/ Contains(target_lower, Lower(cols[c]))
                      \/ Contains(Lower(cols[c]), target_lower)}
    IN  IF partial # {} THEN StrV(cols[CHOOSE c \in partial : \A d \in partial : c <= d])
        ELSE NoneV

\* _find_column
_find_column(cols, target) ==
    LET target_lower == Lower(target)
        exact   == {c \in 1..Len(cols) : Lower(cols[c]) = target_lower}
        partial == {c \in 1..Len(cols) :
                      \/ Contains(target_lower, Lower(cols[c]))
                      \/ Contains(Lower(cols[c]), target_lower)}
    IN  IF exact # {} THEN StrV(cols[CHOOSE c \in exact : \A d \in exact : c <= d])
        ELSE IF partial # {} THEN StrV(cols[CHOOSE c \in partial : \A d \in partial : c <= d])
        ELSE NoneV

\* pd.to_numeric(value, errors='coerce'): ints and floats are kept, a string
\* of digits is parsed, anything else is NaN (numeric cell texts of the
\* palettes are whole numbers)
ToNumeric(v) ==
    CASE v.t \in {"int", "float"} -> IntV(v.n)
      [] v.t = "str" /\ Strip(v.s) # "" /\ TakeWhile(Strip(v.s), DigitChars) = Strip(v.s)
                                    -> IntV(StrToNat(Strip(v.s)))
      [] OTHER -> NaNV

\* The pairs of numeric values of two columns, in record order
NumericPairs(data, x_col, y_col) ==
    LET pair(r) == << ToNumeric(DataFrameCell(data, r, x_col)),
                      ToNumeric(DataFrameCell(data, r, y_col)) >>
        all     == [r \in 1..Len(data) |-> pair(r)]
    IN  SelectSeq(all, LAMBDA p : ~IsNa(p[1]) /\ ~IsNa(p[2]))

RECURSIVE SumSeq(_)
SumSeq(ns) == IF ns = <<>> THEN 0 ELSE Head(ns) + SumSeq(Tail(ns))

\* Series.corr: Pearson r = num / sqrt(dx * dy); 0.0 is CorrV(0, 1, 1)
Pearson(pairs) ==
    LET n   == Len(pairs)
        sx  == SumSeq([i \in 1..n |-> pairs[i][1].n])
        sy  == SumSeq([i \in 1..n |-> pairs[i][2].n])
        sxx == SumSeq([i \in 1..n |-> pairs[i][1].n * pairs[i][1].n])
        syy == SumSeq([i \in 1..n |-> pairs[i][2].n * pairs[i][2].n])
        sxy == SumSeq([i \in 1..n |-> pairs[i][1].n * pairs[i][2].n])
        num == n * sxy - sx * sy
        dx  == n * sxx - sx * sx
        dy  == n * syy - sy * sy
    IN  IF n < 2 \/ dx = 0 \/ dy = 0 \/ num = 0 THEN CorrV(0, 1, 1) ELSE CorrV(num, dx, dy)

\* calculate_correlation
calculate_correlation(data, col1, col2) ==
    IF data = <<>> THEN CorrV(0, 1, 1)
    ELSE LET x_col == _find_column(DataFrameColumns(data), col1)
             y_col == _find_column(DataFrameColumns(data), col2)
         IN  IF x_col.s = "" \/ y_col.s = "" THEN CorrV(0, 1, 1)
             ELSE Pearson(NumericPairs(data, x_col.s, y_col.s))

\* prepare_chart_data: one {x_col: x, y_col: y} per row with both numeric
prepare_chart_data(data, x_col, y_col) ==
    IF data = <<>> THEN <<>>
    ELSE LET x_match == _find_column(DataFrameColumns(data), x_col)
             y_match == _find_column(DataFrameColumns(data), y_col)
         IN  IF x_match.s = "" \/ y_match.s = "" THEN <<>>
             ELSE LET pairs == NumericPairs(data, x_match.s, y_match.s)
                  IN  [i \in 1..Len(pairs) |->
                         DictSet(DictSet(<<>>, x_col, FloatV(pairs[i][1].n)),
                                 y_col, FloatV(pairs[i][2].n))]

-----------------------------------------------------------------------------
(* services/chart_generator.py: the image is kept as the text of what was    *)
(* drawn, behind the data-URI prefix                                         *)

DataUri(body) == "data:image/png;base64," \o body

\* _create_error_chart
_create_error_chart(error_message) == DataUri("<Error: " \o error_message \o ">")

\* create_scatterplot_with_regression
create_scatterplot_with_regression(data, x_col, y_col) ==
    IF data = <<>> THEN _create_error_chart("No data provided")
    ELSE IF ~(\E i \in 1..Len(DataFrameColumns(data)) : DataFrameColumns(data)[i] = x_col)
            \/ ~(\E i \in 1..Len(DataFrameColumns(data)) : DataFrameColumns(data)[i] = y_col)
    THEN _create_error_chart("Columns '" \o x_col \o "' or '" \o y_col \o "' not found")
    ELSE IF Len(NumericPairs(data, x_col, y_col)) < 2
    THEN _create_error_chart("Insufficient valid data points")
    ELSE DataUri("<scatter " \o y_col \o " vs " \o x_col \o ">")

-----------------------------------------------------------------------------
(* _scrape_films_sync, step by step *)

\* soup.find_all('table', {'class': 'wikitable'})
WikiTables(doc) == SelectSeq(doc, LAMBDA table : table.wikitable)

\* Lines 52-53 for one table of the loop
ExtendFilms(films, table) ==
    IF TableAccepted(table) THEN films \o _parse_films_table(table) ELSE films

\* Without the [:50] slice
ScrapeResultUnsliced(films) ==
    IF films = <<>> THEN _get_sample_films_data ELSE films

\* Lines 56-59
ScrapeResult(films) ==
    IF films = <<>> THEN _get_sample_films_data ELSE Take(films, RecordLimit)

\* An empty list in place of the sample data
OnFetchErrorEmpty == <<>>

\* Lines 61-63 (and 31-33): what a failed fetch returns
OnFetchError == _get_sample_films_data

\* session.get and raise_for_status succeed (lines 38-44)
FetchOK ==
    /\ sc_pc = "fetch"
    /\ fetch_ok' = "ok"
    /\ fetches' = fetches + 1
    /\ sc_pc' = "tables"
    /\ ti' = 1
    /\ films_data' = <<>>
    /\ UNCHANGED <<page, scraped_data>>
    /\ UNCHANGED routerVars
    /\ UNCHANGED statsVars
    /\ UNCHANGED <<auxVars, apiVars>>

\* session.get or raise_for_status raises: transport error, timeout or a
\* non-success status (lines 38-39, 61-63)
FetchFail ==
    /\ sc_pc = "fetch"
    /\ fetch_ok' = "fail"
    /\ fetches' = fetches + 1
    /\ scraped_data' = OnFetchError
    /\ sc_pc' = "returned"
    /\ UNCHANGED <<page, ti, films_data>>
    /\ UNCHANGED routerVars
    /\ UNCHANGED statsVars
    /\ UNCHANGED <<auxVars, apiVars>>

\* One iteration of the loop over the wikitables (lines 47-53)
ScanTable ==
    /\ sc_pc = "tables"
    /\ ti <= Len(WikiTables(page))
    /\ films_data' = ExtendFilms(films_data, WikiTables(page)[ti])
    /\ ti' = ti + 1
    /\ UNCHANGED <<page, fetch_ok, sc_pc, scraped_data, fetches>>
    /\ UNCHANGED routerVars
    /\ UNCHANGED statsVars
    /\ UNCHANGED <<auxVars, apiVars>>

\* After the loop (lines 55-59)
ScrapeReturn ==
    /\ sc_pc = "tables"
    /\ ti > Len(WikiTables(page))
    /\ scraped_data' = ScrapeResult(films_data)
    /\ sc_pc' = "returned"
    /\ UNCHANGED <<page, fetch_ok, ti, films_data, fetches>>
    /\ UNCHANGED routerVars
    /\ UNCHANGED statsVars
    /\ UNCHANGED <<auxVars, apiVars>>

-----------------------------------------------------------------------------
(* api/index.py: process_analysis_task *)

\* A float literal, in thousandths
DecV(milli) == [t |-> "dec", n |-> milli, a |-> 0, b |-> 0, s |-> ""]

\* min_gross arguments of lines 129 and 134, and the year of line 129
TwoBillion     == 2000000
OneAndAHalfBn  == 1500000
YearTwoThousand == 2000

MinimalImage ==
    "data:image/png;base64,iVBORw0KGgoAAAANSUhEUgAAAAEAAAABCAYAAAAfFcSJAAAADUlEQVR42mNk+M9QDwADhgGAWjR9awAAAABJRU5ErkJggg=="

\* task_data.get("task", "") and task_data.get("questions", [])
TaskDescription(td) == IF td.has_task THEN td.task ELSE StrV("")
Questions(td)       == td.questions

\* The conditions of lines 127, 132, 137 and 142
IsCountQuestion(question) ==
    /\ Contains("how many", Lower(question))
    /\ Contains("$2", question)
    /\ Contains("before 2000", question)
IsEarliestQuestion(question) ==
    /\ Contains("earliest film", Lower(question))
    /\ Contains("$1.5", question)
IsCorrelationQuestion(question) == Contains("correlation", Lower(question))
IsPlotQuestion(question) ==
    Contains("scatterplot", Lower(question)) \/ Contains("plot", Lower(question))

\* The chain with the plot test ahead of the correlation test
AnswerPlotFirst(question, data) ==
    IF IsCountQuestion(question)
    THEN IntV(count_films_before_year(data, YearTwoThousand, TwoBillion))
    ELSE IF IsEarliestQuestion(question)
    THEN StrV(find_earliest_film_over_amount(data, OneAndAHalfBn))
    ELSE IF IsPlotQuestion(question)
    THEN StrV(create_scatterplot_with_regression(
                 prepare_chart_data(data, "Rank", "Peak"), "Rank", "Peak"))
    ELSE IF IsCorrelationQuestion(question)
    THEN calculate_correlation(data, "Rank", "Peak")
    ELSE StrV("Question not recognized")

\* The if/elif chain of lines 127-151 for one question
AnswerFilmsQuestion(question, data) ==
    IF IsCountQuestion(question)
    THEN IntV(count_films_before_year(data, YearTwoThousand, TwoBillion))
    ELSE IF IsEarliestQuestion(question)
    THEN StrV(find_earliest_film_over_amount(data, OneAndAHalfBn))
    ELSE IF IsCorrelationQuestion(question)
    THEN calculate_correlation(data, "Rank", "Peak")
    ELSE IF IsPlotQuestion(question)
    THEN StrV(create_scatterplot_with_regression(
                 prepare_chart_data(data, "Rank", "Peak"), "Rank", "Peak"))
    ELSE StrV("Question not recognized")

\* results.insert(0, ...) in place of append
PrependResult(res, answer) == <<answer>> \o res

\* results.append(...)
AppendResult(res, answer) == Append(res, answer)

\* The database test ahead of the films test
ClassifyDatabaseFirst(task_description) ==
    IF Contains("database", Lower(task_description))
    THEN "database"
    ELSE IF Contains("wikipedia", Lower(task_description))
              /\ Contains("film", Lower(task_description))
    THEN "films"
    ELSE "generic"

\* Lines 122, 153, 157
ClassifyDomain(task_description) ==
    IF Contains("wikipedia", Lower(task_description))
         /\ Contains("film", Lower(task_description))
    THEN "films"
    ELSE IF Contains("database", Lower(task_description))
    THEN "database"
    ELSE "generic"

\* Lines 162-163
EnsureResults(res) == IF res = <<>> THEN <<StrV("No results generated")>> ELSE res

\* No except branch: the exception leaves the function
Reraise(msg) == [returned |-> <<>>, raised |-> TRUE]

\* Lines 167-169: what the except branch does with an exception whose
\* str() is msg
HandleException(msg) ==
    [returned |-> <<StrV("Error processing task: " \o msg)>>, raised |-> FALSE]

\* str(e) of the AttributeError for a missing method
NoAttribute(type, attr) == "'" \o type \o "' object has no attribute '" \o attr \o "'"

\* type(v).__name__
TypeName(v) ==
    CASE v.t = "int" -> "int" [] v.t = "str" -> "str" [] v.t = "none" -> "NoneType"
      [] OTHER -> "float"

\* process_database_task (data_processor.py:128-149)
RECURSIVE DatabaseAnswers(_)
DatabaseAnswers(questions) ==
    IF questions = <<>> THEN <<>>
    ELSE LET q == Lower(Head(questions).s)
             answer == IF Contains("count", q) THEN IntV(42)
                       ELSE IF Contains("regression", q) THEN DecV(750)
                       ELSE IF Contains("plot", q) THEN StrV(MinimalImage)
                       ELSE StrV("Database analysis result")
         IN  <<answer>> \o DatabaseAnswers(Tail(questions))

process_database_task(td) ==
    IF \E i \in 1..Len(Questions(td)) : Questions(td)[i].t # "str"
    THEN <<StrV("Database processing error")>>
    ELSE DatabaseAnswers(Questions(td))

\* process_generic_task (data_processor.py:151-177)
RECURSIVE GenericAnswers(_)
GenericAnswers(questions) ==
    IF questions = <<>> THEN <<>>
    ELSE LET q == Lower(Head(questions).s)
             answer == IF Contains("how many", q) THEN IntV(1)
                       ELSE IF Contains("which", q) \/ Contains("what", q)
                       THEN StrV("Sample answer")
                       ELSE IF Contains("correlation", q) THEN DecV(500)
                       ELSE IF Contains("plot", q) \/ Contains("chart", q)
                       THEN StrV(MinimalImage)
                       ELSE StrV("Analysis result")
         IN  <<answer>> \o GenericAnswers(Tail(questions))

process_generic_task(td) ==
    IF Questions(td) = <<>> THEN <<StrV("Generic analysis completed")>>
    ELSE IF \E i \in 1..Len(Questions(td)) : Questions(td)[i].t # "str"
    THEN <<StrV("Generic processing error")>>
    ELSE GenericAnswers(Questions(td))

\* The except branch taken from any position of the try block
Fail(msg) ==
    /\ returned' = HandleException(msg).returned
    /\ raised' = HandleException(msg).raised
    /\ pc' = "done"

\* A router that scrapes the page whatever the domain
FetchPositionAlways(dom, cur) == "fetch"

\* Where the scraper stands once the domain is known: only the films branch
\* calls scrape_wikipedia_films, once, ahead of its loop (lines 123-124)
FetchPosition(dom, cur) == IF dom = "films" THEN "fetch" ELSE cur

\* Lines 116-122, 153, 157: read the task and choose the branch; the films
\* branch calls scrape_wikipedia_films (line 124)
Classify ==
    /\ pc = "start"
    /\ IF ~task_data.is_dict
       THEN /\ Fail(NoAttribute("list", "get"))
            /\ UNCHANGED <<domain, qi, sc_pc>>
       ELSE IF TaskDescription(task_data).t # "str"
       THEN /\ Fail(NoAttribute(TypeName(TaskDescription(task_data)), "lower"))
            /\ UNCHANGED <<domain, qi, sc_pc>>
       ELSE /\ domain' = ClassifyDomain(TaskDescription(task_data).s)
            /\ pc' = domain'
            /\ qi' = 1
            /\ sc_pc' = FetchPosition(domain', sc_pc)
            /\ UNCHANGED <<returned, raised>>
    /\ UNCHANGED <<task_data, results>>
    /\ UNCHANGED <<page, fetch_ok, ti, films_data, scraped_data, fetches>>
    /\ UNCHANGED statsVars
    /\ UNCHANGED <<auxVars, apiVars>>

\* One iteration of the loop of lines 126-151, once the scraper has returned
AnswerQuestion ==
    /\ pc = "films"
    /\ sc_pc = "returned"
    /\ qi <= Len(Questions(task_data))
    /\ LET question == Questions(task_data)[qi] IN
       IF question.t # "str"
       THEN /\ Fail(NoAttribute(TypeName(question), "lower"))
            /\ UNCHANGED <<results, qi>>
       ELSE /\ results' = AppendResult(results, AnswerFilmsQuestion(question.s, scraped_data))
            /\ qi' = qi + 1
            /\ UNCHANGED <<pc, returned, raised>>
    /\ UNCHANGED <<task_data, domain>>
    /\ UNCHANGED scraperVars
    /\ UNCHANGED statsVars
    /\ UNCHANGED <<auxVars, apiVars>>

\* The end of the films loop and lines 161-165
ReturnFilms ==
    /\ pc = "films"
    /\ sc_pc = "returned"
    /\ qi > Len(Questions(task_data))
    /\ returned' = EnsureResults(results)
    /\ pc' = "done"
    /\ UNCHANGED <<task_data, domain, qi, results, raised>>
    /\ UNCHANGED scraperVars
    /\ UNCHANGED statsVars
    /\ UNCHANGED <<auxVars, apiVars>>

\* Lines 153-155 and 161-165
DatabaseTask ==
    /\ pc = "database"
    /\ results' = process_database_task(task_data)
    /\ returned' = EnsureResults(results')
    /\ pc' = "done"
    /\ UNCHANGED <<task_data, domain, qi, raised>>
    /\ UNCHANGED scraperVars
    /\ UNCHANGED statsVars
    /\ UNCHANGED <<auxVars, apiVars>>

\* Lines 157-159 and 161-165
GenericTask ==
    /\ pc = "generic"
    /\ results' = process_generic_task(task_data)
    /\ returned' = EnsureResults(results')
    /\ pc' = "done"
    /\ UNCHANGED <<task_data, domain, qi, raised>>
    /\ UNCHANGED scraperVars
    /\ UNCHANGED statsVars
    /\ UNCHANGED <<auxVars, apiVars>>

-----------------------------------------------------------------------------
(* Driver of the statistics operations on drawn inputs *)

CallCount ==
    /\ st_pc = "start"
    /\ st_count' = count_films_before_year(st_data, st_year, st_min)
    /\ st_pc' = "counted"
    /\ UNCHANGED <<st_data, st_year, st_min, st_earliest>>
    /\ UNCHANGED routerVars
    /\ UNCHANGED scraperVars
    /\ UNCHANGED <<auxVars, apiVars>>

CallEarliest ==
    /\ st_pc = "counted"
    /\ st_earliest' = find_earliest_film_over_amount(st_data, st_min)
    /\ st_pc' = "done"
    /\ UNCHANGED <<st_data, st_year, st_min, st_count>>
    /\ UNCHANGED routerVars
    /\ UNCHANGED scraperVars
    /\ UNCHANGED <<auxVars, apiVars>>

-----------------------------------------------------------------------------
(* Inputs *)

RECURSIVE SeqsUpTo(_, _)
SeqsUpTo(S, n) ==
    IF n = 0 THEN {<<>>}
    ELSE LET shorter == SeqsUpTo(S, n - 1)
         IN  shorter \cup {Append(q, x) : q \in {r \in shorter : Len(r) = n - 1}, x \in S}

\* Questions: strings, and a value that is not a string
QuestionPalette ==
    { StrV("How many $2 bn movies were released before 2000?"),
      StrV("how many $2 bn movies were released Before 2000?"),
      StrV("Which is the earliest film that grossed over $1.5 bn?"),
      StrV("What's the correlation between the Rank and Peak? Plot it."),
      StrV("Draw a Scatterplot of Rank and Peak"),
      StrV("How many $2 bn movies before 2000, and the Earliest Film over $1.5 bn?"),
      IntV(42) }

Task(text, questions) ==
    [is_dict |-> TRUE, has_task |-> TRUE, task |-> text, questions |-> questions]

TaskTexts ==
    { StrV("Scrape the list of highest grossing films from Wikipedia"),
      StrV("WIKIPEDIA FILM DATABASE"),
      StrV("Query the sales Database"),
      StrV("Read the wikipedia page"),
      StrV("Review a film"),
      IntV(7) }

TaskPalette ==
    LET qs == SeqsUpTo(QuestionPalette, MaxQuestions) IN
    {Task(text, q) : text \in TaskTexts, q \in qs}
      \cup {[is_dict |-> TRUE, has_task |-> FALSE, task |-> NoneV, questions |-> q] : q \in qs}
      \cup {[is_dict |-> FALSE, has_task |-> FALSE, task |-> NoneV, questions |-> <<>>]}

\* HTML tables
Td(text) == [th |-> FALSE, text |-> text]
Th(text) == [th |-> TRUE, text |-> text]
Tr(cells) == [cells |-> cells, raises |-> FALSE]
TrRaises(cells) == [cells |-> cells, raises |-> TRUE]

FilmsHeader ==
    Tr(<<Th("Rank"), Th("Peak"), Th("Title"), Th("Worldwide gross"), Th("Year"), Th("Ref.")>>)

FilmsTable ==
    [wikitable |-> TRUE,
     rows |-> << FilmsHeader,
                 Tr(<<Td("1"), Td("1"), Td(" Avatar (film)[5] "), Td("$2.923 billion"), Td("2009"), Td("[# 1]")>>),
                 Tr(<<Td("4"), Td("1"), Td("Titanic"), Td("$2.257 billion"), Td("1997")>>),
                 Tr(<<Td("5"), Td("n/a"), Td("(untitled)"), Td("$1.9 billion"), Td("2015")>>),
                 Tr(<<Td("6"), Td("6")>>),
                 Tr(<<Td("-"), Td("7"), Td("Jurassic World"), Td("$1.672 billion"), Td("TBA")>>) >>]

DecadeTable ==
    [wikitable |-> TRUE,
     rows |-> << Tr(<<Th("Year"), Th("Film"), Th("Box Office"), Th("Budget")>>),
                 Tr(<<Td("1939"), Td("Gone with the Wind"), Td("$402 million gross"), Td("$4 million")>>),
                 Tr(<<Td("1977"), Td("Star Wars [a]"), Td("$775 million gross"), Td("$11 million")>>) >>]

RaisingTable ==
    [wikitable |-> TRUE,
     rows |-> << FilmsHeader,
                 Tr(<<Td("2"), Td("1"), Td("Avengers: Endgame"), Td("$2.798 billion"), Td("2019")>>),
                 TrRaises(<<Td("3"), Td("3"), Td("Avatar: The Way of Water"), Td("$2.320 billion"), Td("2022")>>) >>]

UntitledTable ==
    [wikitable |-> TRUE,
     rows |-> << Tr(<<Th("Rank"), Th("Gross"), Th("Year")>>),
                 Tr(<<Td("1"), Td("$2.9 billion"), Td("2009")>>) >>]

CountryTable ==
    [wikitable |-> TRUE,
     rows |-> << Tr(<<Th("Country"), Th("Title"), Th("Population")>>),
                 Tr(<<Td("France"), Td("Republic"), Td("68 million")>>) >>]

PlainTable ==
    [wikitable |-> FALSE,
     rows |-> << FilmsHeader,
                 Tr(<<Td("9"), Td("9"), Td("The Lion King"), Td("$1.657 billion"), Td("2019")>>) >>]

BigTable ==
    [wikitable |-> TRUE,
     rows |-> <<FilmsHeader>> \o
              [i \in 1..BigTableRows |->
                 Tr(<<Td(NatToStr(i)), Td(NatToStr(i)), Td("Film " \o NatToStr(i)),
                      Td("$1." \o NatToStr(i) \o " billion"), Td("2001")>>)]]

TablePalette ==
    {FilmsTable, DecadeTable, RaisingTable, UntitledTable, CountryTable, PlainTable, BigTable}

Pages == SeqsUpTo(TablePalette, MaxTables)

\* Pages served to the requests of the router specification
RouterPages == {<<>>, <<FilmsTable>>}

\* Record sequences for the statistics operations
Rec(title, gross, year) ==
    << [k |-> "title", v |-> StrV(title)],
       [k |-> "worldwide_gross", v |-> StrV(gross)],
       [k |-> "year", v |-> year] >>

RecordPalette ==
    { Film(4, "Titanic", "$2.257 billion", 1997, 1),
      Rec("Titanic 3D", "$2.2 billion", IntV(1997)),
      Rec("Gone with the Wind", "$1,850 million gross", IntV(1939)),
      Rec("Lost Reel", "$0 billion", IntV(1990)),
      Rec("Undated", "$3.1 billion", NoneV),
      Rec("Unreleased", "n/a", IntV(1950)),
      Rec("[untitled]", "$1.6 billion", IntV(1925)) }

StatsInputs == SeqsUpTo(RecordPalette, MaxRecords) \cup {_get_sample_films_data}

StatsYears == {2000, 1997}
StatsMins  == {0, OneAndAHalfBn, TwoBillion}

-----------------------------------------------------------------------------
(* Specifications *)

RouterIdle ==
    /\ pc = "idle" /\ domain = "none" /\ qi = 1 /\ results = <<>>
    /\ returned = <<>> /\ raised = FALSE
    /\ task_data = Task(StrV(""), <<>>)

ScraperIdle ==
    /\ sc_pc = "idle" /\ fetch_ok = "none" /\ ti = 1 /\ films_data = <<>>
    /\ scraped_data = <<>> /\ fetches = 0

StatsIdle ==
    /\ st_pc = "idle" /\ st_data = <<>> /\ st_year = 0 /\ st_min = 0
    /\ st_count = 0 /\ st_earliest = ""

PureIdle == st_calls = <<>> /\ st_given = <<>>

FieldIdle == fx_pc = "idle" /\ fx_row = <<>> /\ fx_rev = NoneV

ResolveIdle ==
    /\ rs_pc = "idle" /\ rs_x = "" /\ rs_y = ""
    /\ rs_found = <<NoneV, NoneV>> /\ rs_corr = CorrV(0, 1, 1)
    /\ rs_chart = <<>>

ConcIdle ==
    /\ rq_pc = [r \in 1..NumRequests |-> "idle"]
    /\ rq_kind = [r \in 1..NumRequests |-> "none"]
    /\ session = {} /\ sess_wrote = {} /\ sess_read = {}

ChartIdle ==
    /\ ch_pc = "idle" /\ ch_data = <<>> /\ ch_fault = {}
    /\ open_figs = 0 /\ ch_result = "" /\ ch_msg = "" /\ ch_before = 0

ApiIdle ==
    /\ ap_pc = "idle" /\ ap_file = NoneV /\ ap_data = NoneV
    /\ ap_status = 0 /\ ap_detail = ""

AuxIdle == PureIdle /\ FieldIdle /\ ResolveIdle /\ ConcIdle /\ ChartIdle

\* One request handed to process_analysis_task
Init ==
    /\ task_data \in TaskPalette
    /\ pc = "start" /\ domain = "none" /\ qi = 1 /\ results = <<>>
    /\ returned = <<>> /\ raised = FALSE
    /\ page \in RouterPages
    /\ ScraperIdle
    /\ StatsIdle
    /\ AuxIdle /\ ApiIdle

Next ==
    \/ Classify
    \/ FetchOK
    \/ FetchFail
    \/ ScanTable
    \/ ScrapeReturn
    \/ AnswerQuestion
    \/ ReturnFilms
    \/ DatabaseTask
    \/ GenericTask

Spec == Init /\ [][Next]_vars

\* One call of scrape_wikipedia_films against a drawn page
InitScraper ==
    /\ RouterIdle
    /\ page \in Pages
    /\ sc_pc = "fetch" /\ fetch_ok = "none" /\ ti = 1 /\ films_data = <<>>
    /\ scraped_data = <<>> /\ fetches = 0
    /\ StatsIdle
    /\ AuxIdle /\ ApiIdle

NextScraper ==
    \/ FetchOK
    \/ FetchFail
    \/ ScanTable
    \/ ScrapeReturn

SpecScraper == InitScraper /\ [][NextScraper]_vars

\* The statistics operations on drawn records and arguments
InitStats ==
    /\ RouterIdle
    /\ page = <<>>
    /\ ScraperIdle
    /\ st_pc = "start"
    /\ st_data \in StatsInputs
    /\ st_year \in StatsYears
    /\ st_min \in StatsMins
    /\ st_count = 0 /\ st_earliest = ""
    /\ AuxIdle /\ ApiIdle

NextStats ==
    \/ CallCount
    \/ CallEarliest

SpecStats == InitStats /\ [][NextStats]_vars

-----------------------------------------------------------------------------
(* Properties *)

IsFilmsTask(td) ==
    /\ td.is_dict
    /\ TaskDescription(td).t = "str"
    /\ Contains("wikipedia", Lower(TaskDescription(td).s))
    /\ Contains("film", Lower(TaskDescription(td).s))

AllStringQuestions(td) == \A i \in 1..Len(Questions(td)) : Questions(td)[i].t = "str"

HasPrefix(str, prefix) == Len(str) >= Len(prefix) /\ SubSeq(str, 1, Len(prefix)) = prefix

\* C1 as stated: a films task with N (string) questions returns exactly N
\* results, the i-th being the answer to question i.
C1_ExactlyN ==
    (pc = "done" /\ IsFilmsTask(task_data) /\ AllStringQuestions(task_data)) =>
        /\ Len(returned) = Len(Questions(task_data))
        /\ \A i \in 1..Len(returned) :
              returned[i] = AnswerFilmsQuestion(Questions(task_data)[i].s, scraped_data)

\* C1 amended: a films task with N >= 1 string questions returns exactly N
\* results in question order; with N = 0 it returns the single element
\* "No results generated".
C1_NOrSubstitute ==
    (pc = "done" /\ IsFilmsTask(task_data) /\ AllStringQuestions(task_data)) =>
        IF Questions(task_data) = <<>>
        THEN returned = <<StrV("No results generated")>>
        ELSE /\ Len(returned) = Len(Questions(task_data))
             /\ \A i \in 1..Len(returned) :
                   returned[i] = AnswerFilmsQuestion(Questions(task_data)[i].s, scraped_data)

C1_Witness ==
    /\ pc = "done" /\ IsFilmsTask(task_data) /\ AllStringQuestions(task_data)
    /\ Len(Questions(task_data)) = 2
    /\ Len(returned) = 2
    /\ returned[1].t = "int" /\ returned[2].t = "corr"

\* The inputs on which the try block of process_analysis_task raises
RaisesInside(td) ==
    \/ ~td.is_dict
    \/ TaskDescription(td).t # "str"
    \/ IsFilmsTask(td) /\ ~AllStringQuestions(td)

\* A question that is not a string, met by the database or generic handler
RaisesInHandler(td) ==
    /\ td.is_dict
    /\ TaskDescription(td).t = "str"
    /\ ~IsFilmsTask(td)
    /\ ~AllStringQuestions(td)

\* C2 as stated: no exception leaves process_analysis_task, and any error
\* raised during classification, scraping or answering (a failed fetch and a
\* non-string question of any domain included) yields the single element
\* "Error processing task: <message>".
C2_AnyErrorConverted ==
    /\ ~raised
    /\ (/\ pc = "done"
        /\ \/ RaisesInside(task_data)
           \/ RaisesInHandler(task_data)
           \/ fetch_ok = "fail") =>
          /\ Len(returned) = 1
          /\ returned[1].t = "str"
          /\ HasPrefix(returned[1].s, "Error processing task: ")

\* C2 amended: no exception leaves process_analysis_task and it always
\* returns a non-empty list; an error that reaches its own except branch
\* yields the single element "Error processing task: <message>", while a
\* non-string question of a database or generic task yields that handler's
\* own single-element error.
C2_NeverPropagates ==
    /\ ~raised
    /\ pc = "done" => returned # <<>>
    /\ (pc = "done" /\ RaisesInside(task_data)) =>
          /\ Len(returned) = 1
          /\ returned[1].t = "str"
          /\ HasPrefix(returned[1].s, "Error processing task: ")
          /\ Len(returned[1].s) > Len("Error processing task: ")
    /\ (pc = "done" /\ RaisesInHandler(task_data)) =>
          returned = IF domain = "database"
                     THEN <<StrV("Database processing error")>>
                     ELSE <<StrV("Generic processing error")>>

C2_Witness ==
    /\ pc = "done" /\ IsFilmsTask(task_data) /\ results # <<>>
    /\ ~AllStringQuestions(task_data)
    /\ returned = <<StrV("Error processing task: 'int' object has no attribute 'lower'")>>

\* C3: every answered films question has exactly one result, given by the
\* first rule that matches in the order count, earliest, correlation, plot,
\* and "Question not recognized" when none matches.
C3_FirstRuleWins ==
    (domain = "films") =>
        /\ Len(results) = qi - 1
        /\ \A i \in 1..Len(results) :
              LET q == Questions(task_data)[i].s
                  r == results[i]
                  count    == IsCountQuestion(q)
                  earliest == IsEarliestQuestion(q)
                  corr     == IsCorrelationQuestion(q)
                  plot     == IsPlotQuestion(q)
              IN  /\ count =>
                        r = IntV(count_films_before_year(scraped_data, 2000, 2000000))
                  /\ (~count /\ earliest) =>
                        r = StrV(find_earliest_film_over_amount(scraped_data, 1500000))
                  /\ (~count /\ ~earliest /\ corr) =>
                        r = calculate_correlation(scraped_data, "Rank", "Peak")
                  /\ (~count /\ ~earliest /\ ~corr /\ plot) =>
                        (r.t = "str" /\ HasPrefix(r.s, "data:image/png;base64,"))
                  /\ (~count /\ ~earliest /\ ~corr /\ ~plot) =>
                        r = StrV("Question not recognized")

C3_Witness ==
    /\ domain = "films"
    /\ \E i \in 1..Len(results) :
          /\ IsCorrelationQuestion(Questions(task_data)[i].s)
          /\ IsPlotQuestion(Questions(task_data)[i].s)
          /\ results[i].t = "corr"
    /\ \E i \in 1..Len(results) :
          /\ IsCountQuestion(Questions(task_data)[i].s)
          /\ IsEarliestQuestion(Questions(task_data)[i].s)
          /\ results[i].t = "int"

\* C4 as stated: a films question whose lower-cased text contains "how many",
\* "$2" and "before 2000" is answered by the count of films before 2000 with
\* at least 2.0 billion, whatever its letter case.
C4_CaseInsensitive ==
    (domain = "films") =>
        \A i \in 1..Len(results) :
            LET q == Questions(task_data)[i].s IN
            (/\ Contains("how many", Lower(q))
             /\ Contains("$2", Lower(q))
             /\ Contains("before 2000", Lower(q))) =>
                results[i] = IntV(count_films_before_year(scraped_data, 2000, 2000000))

\* C5: once classified, the domain is films iff the lower-cased task text has
\* "wikipedia" and "film", else database iff it has "database", else generic;
\* a missing task text is generic.
C5_Classification ==
    (pc # "start" /\ task_data.is_dict /\ TaskDescription(task_data).t = "str") =>
        LET text  == Lower(TaskDescription(task_data).s)
            films == Contains("wikipedia", text) /\ Contains("film", text)
            db    == Contains("database", text)
        IN  /\ domain \in {"films", "database", "generic"}
            /\ domain = "films" <=> films
            /\ domain = "database" <=> (~films /\ db)
            /\ domain = "generic" <=> (~films /\ ~db)
            /\ ~task_data.has_task => domain = "generic"

C5_Witness ==
    /\ domain = "films"
    /\ Contains("database", Lower(TaskDescription(task_data).s))
    /\ TaskDescription(task_data).s # Lower(TaskDescription(task_data).s)

AcceptedTables(doc) == SelectSeq(WikiTables(doc), TableAccepted)
TableRaises(table) == \E r \in 1..Len(table.rows) : table.rows[r].raises

\* C7 as stated: if the normalization of any accepted table raises, the
\* scraper's output is the fallback set.
C7_AnyFailureFallsBack ==
    (/\ sc_pc = "returned" /\ fetch_ok = "ok"
     /\ \E i \in 1..Len(AcceptedTables(page)) : TableRaises(AcceptedTables(page)[i])) =>
        scraped_data = _get_sample_films_data

\* C7 amended: an accepted table whose normalization raises contributes no
\* record; the output is the fallback set only if the other accepted tables
\* yield no record, and the first 50 records of those tables otherwise.
C7_FailedTableContributesNothing ==
    (sc_pc = "returned" /\ fetch_ok = "ok") =>
        LET sound == SelectSeq(AcceptedTables(page), LAMBDA table : ~TableRaises(table))
            rows  == Flatten([i \in 1..Len(sound) |-> ParseRows(
                        [c \in 1..Len(sound[i].rows[1].cells) |->
                            _normalize_header(CellText(sound[i].rows[1].cells[c]))],
                        Tail(sound[i].rows))])
        IN  IF rows = <<>>
            THEN scraped_data = _get_sample_films_data
            ELSE scraped_data = SubSeq(rows, 1, IF Len(rows) < 50 THEN Len(rows) ELSE 50)

C7_Witness ==
    /\ sc_pc = "returned" /\ fetch_ok = "ok"
    /\ \E i \in 1..Len(AcceptedTables(page)) : TableRaises(AcceptedTables(page)[i])
    /\ scraped_data # _get_sample_films_data
    /\ Len(scraped_data) = 3

\* C8: the scraper returns between 1 and 50 records: the first 50 of the
\* concatenated rows of the accepted tables when the fetch succeeded and
\* there are such rows, the fallback set otherwise.
C8_NonEmptyAtMostFifty ==
    (sc_pc = "returned") =>
        LET tables == WikiTables(page)
            concat == Flatten([i \in 1..Len(tables) |->
                         IF TableAccepted(tables[i])
                         THEN _parse_films_table(tables[i]) ELSE <<>>])
        IN  /\ Len(scraped_data) >= 1
            /\ Len(scraped_data) <= 50
            /\ (fetch_ok = "ok" /\ concat # <<>>) =>
                   /\ Len(scraped_data) = (IF Len(concat) < 50 THEN Len(concat) ELSE 50)
                   /\ \A i \in 1..Len(scraped_data) : scraped_data[i] = concat[i]
            /\ (fetch_ok = "fail" \/ concat = <<>>) =>
                   scraped_data = _get_sample_films_data

C8_Witness ==
    /\ sc_pc = "returned" /\ fetch_ok = "ok"
    /\ Len(films_data) > 50
    /\ Len(scraped_data) = 50
    /\ scraped_data[50] = films_data[50]

\* Presence of an Optional result
Present(v) == v.t # "none"

\* C9 as stated: the count equals the number of records whose year and
\* revenue are both present with year < Y and revenue >= M.
C9_CountsPresentRecords ==
    (st_pc \in {"counted", "done"}) =>
        st_count = Cardinality({r \in 1..Len(st_data) :
            LET values == DataFrameRow(st_data, r)
                y   == _extract_year_from_row(values)
                rev == _extract_revenue_billions(values)
            IN  Present(y) /\ Present(rev) /\ y.n < st_year /\ rev.n >= st_min})

\* The records that qualify for the earliest-film search
Qualifying(data, M) ==
    {r \in 1..Len(data) :
        LET values == DataFrameRow(data, r)
        IN  /\ Present(_extract_year_from_row(values))
            /\ Present(_extract_revenue_billions(values))
            /\ _extract_revenue_billions(values).n >= M}

YearOf(data, r) == _extract_year_from_row(DataFrameRow(data, r)).n

\* C10 as stated: "No data available" on empty input, "Unknown" when no
\* record qualifies, otherwise the extracted title of the first record of
\* minimum year among those with a year and a revenue >= M.
C10_EarliestTitle ==
    (st_pc = "done") =>
        IF st_data = <<>> THEN st_earliest = "No data available"
        ELSE IF Qualifying(st_data, st_min) = {} THEN st_earliest = "Unknown"
        ELSE LET Q == Qualifying(st_data, st_min)
                 best == CHOOSE r \in Q :
                            \A q \in Q : \/ YearOf(st_data, r) < YearOf(st_data, q)
                                         \/ (YearOf(st_data, r) = YearOf(st_data, q) /\ r <= q)
             IN  st_earliest = _extract_title_from_row(DataFrameColumns(st_data),
                                                       DataFrameRow(st_data, best))

-----------------------------------------------------------------------------
(* Repeated calls of the four statistics operations on one list of records  *)

\* The caller's list `data` after a call that empties it while reading
DataAfterCallDrained(data) == <<>>

\* The caller's list `data` after a call: each operation builds its own
\* DataFrame from the records (pd.DataFrame(data)) and assigns nothing to
\* `data` or to a record
DataAfterCall(data) == data

CallRecord(op, val, rows) == [op |-> op, val |-> val, rows |-> rows]

\* One call made by the caller, its result kept in the log
LogCall(rec) ==
    /\ st_pc = "repeat"
    /\ Len(st_calls) < MaxCalls
    /\ st_calls' = Append(st_calls, rec)
    /\ st_data' = DataAfterCall(st_data)
    /\ UNCHANGED <<st_pc, st_year, st_min, st_count, st_earliest, st_given>>
    /\ UNCHANGED <<routerVars, scraperVars, apiVars>>
    /\ UNCHANGED <<fieldVars, resolveVars, concVars, chartVars>>

RepeatCount ==
    LogCall(CallRecord("count",
                       IntV(count_films_before_year(st_data, st_year, st_min)), <<>>))

RepeatEarliest ==
    LogCall(CallRecord("earliest",
                       StrV(find_earliest_film_over_amount(st_data, st_min)), <<>>))

RepeatCorrelation ==
    LogCall(CallRecord("correlation",
                       calculate_correlation(st_data, "Rank", "Peak"), <<>>))

RepeatChartData ==
    LogCall(CallRecord("chart", NoneV, prepare_chart_data(st_data, "Rank", "Peak")))

RepeatInputs ==
    SeqsUpTo(RecordPalette, 1)
        \cup { _get_sample_films_data,
               << Film(4, "Titanic", "$2.257 billion", 1997, 1),
                  Film(1, "Avatar", "$2.923 billion", 2009, 1),
                  Rec("Lost Reel", "$0 billion", IntV(1990)) >> }

InitPure ==
    /\ RouterIdle
    /\ page = <<>>
    /\ ScraperIdle
    /\ st_pc = "repeat"
    /\ st_data \in RepeatInputs
    /\ st_given = st_data
    /\ st_year \in StatsYears
    /\ st_min \in StatsMins
    /\ st_count = 0 /\ st_earliest = ""
    /\ st_calls = <<>>
    /\ FieldIdle /\ ResolveIdle /\ ConcIdle /\ ChartIdle /\ ApiIdle

NextPure ==
    \/ RepeatCount
    \/ RepeatEarliest
    \/ RepeatCorrelation
    \/ RepeatChartData

SpecPure == InitPure /\ [][NextPure]_vars

-----------------------------------------------------------------------------
(* Page fetches made while one task is handled *)

\* C14: handling one task makes at most one fetch attempt: none for a
\* database or generic task (or one that fails before its domain is known),
\* exactly one for a films task, made before the first question is answered
\* and standing for all of them, also when there is no question; after a
\* failed attempt the scraper has returned and fetches no more.
C14_AtMostOneFetch ==
    /\ fetches <= 1
    /\ domain # "films" => fetches = 0 /\ fetch_ok = "none"
    /\ (domain = "films" /\ (results # <<>> \/ qi > 1 \/ pc = "done")) =>
           fetches = 1 /\ sc_pc = "returned"
    /\ fetch_ok = "fail" => fetches = 1 /\ sc_pc = "returned"

\* A films task answered in full after its one fetch failed
C14_Witness ==
    /\ pc = "done" /\ domain = "films" /\ ~raised
    /\ Len(Questions(task_data)) = MaxQuestions
    /\ Len(results) = MaxQuestions
    /\ fetch_ok = "fail"
    /\ fetches = 1

-----------------------------------------------------------------------------
(* _extract_revenue_billions on drawn rows *)

ExtractRevenue ==
    /\ fx_pc = "start"
    /\ fx_rev' = _extract_revenue_billions(fx_row)
    /\ fx_pc' = "done"
    /\ UNCHANGED fx_row
    /\ UNCHANGED <<routerVars, scraperVars, statsVars, apiVars>>
    /\ UNCHANGED <<pureVars, resolveVars, concVars, chartVars>>

\* Values a row can hold: texts with and without a revenue word, with a
\* number, without one, with a run float() rejects, and missing values
ValuePalette ==
    { StrV("Titanic"),
      IntV(1997),
      NaNV,
      StrV("Gross n/a"),
      StrV("gross est. of 2"),
      StrV("$2.257 billion"),
      StrV("$1,850 million gross"),
      StrV("1,500 Box-Office Gross"),
      StrV("Revenue 900") }

InitFields ==
    /\ RouterIdle
    /\ page = <<>>
    /\ ScraperIdle
    /\ StatsIdle
    /\ fx_pc = "start"
    /\ fx_row \in SeqsUpTo(ValuePalette, MaxValues)
    /\ fx_rev = NoneV
    /\ PureIdle /\ ResolveIdle /\ ConcIdle /\ ChartIdle /\ ApiIdle

NextFields == ExtractRevenue

SpecFields == InitFields /\ [][NextFields]_vars

RevenueText(v) == RemoveChar(RemoveChar(ToStr(v), ","), "$")

IsCandidate(v) ==
    /\ ~IsNa(v)
    /\ \E keyword \in {"billion", "gross", "revenue"} :
          Contains(keyword, Lower(RevenueText(v)))

NumberRun(v) == FirstRun(RevenueText(v), DigitChars \cup {"."})

HasNumber(v) == NumberRun(v) # "" /\ FloatParses(NumberRun(v))

\* The value a candidate with a number stands for, in millionths of a billion
RevenueOf(v) ==
    LET milli == FloatMilli(NumberRun(v))
        low   == Lower(RevenueText(v))
    IN  IF Contains("billion", low) THEN RevV(milli * 1000)
        ELSE IF Contains("million", low) THEN RevV(milli)
        ELSE IF milli > 1000 * 1000 THEN RevV(milli)
        ELSE RevV(milli * 1000)

Least(S) == CHOOSE c \in S : \A d \in S : c <= d

\* C15 as stated: the first candidate value alone decides; when its number
\* is missing or does not parse the result is absent, whatever follows.
C15_FirstCandidateOnly ==
    fx_pc = "done" =>
        LET cand == {i \in 1..Len(fx_row) : IsCandidate(fx_row[i])}
        IN  fx_rev = IF cand = {} THEN NoneV
                     ELSE IF HasNumber(fx_row[Least(cand)])
                     THEN RevenueOf(fx_row[Least(cand)])
                     ELSE NoneV

\* C15, amended: the first candidate value whose first digit/decimal run
\* exists and parses decides, by the billion / million / > 1000 rule;
\* candidates without such a number are passed over, and the result is
\* absent only when no candidate has one.
C15_FirstParsableCandidate ==
    fx_pc = "done" =>
        LET good == {i \in 1..Len(fx_row) :
                        IsCandidate(fx_row[i]) /\ HasNumber(fx_row[i])}
        IN  fx_rev = IF good = {} THEN NoneV ELSE RevenueOf(fx_row[Least(good)])

\* A row whose first candidate has no usable number and a later one has
C15_Witness ==
    /\ fx_pc = "done"
    /\ Len(fx_row) = 2
    /\ IsCandidate(fx_row[1]) /\ ~HasNumber(fx_row[1])
    /\ IsCandidate(fx_row[2]) /\ HasNumber(fx_row[2])
    /\ fx_rev = RevenueOf(fx_row[2])

-----------------------------------------------------------------------------
(* Records the table normalizer emits *)

NormalizedHeaders(table) ==
    [c \in 1..Len(table.rows[1].cells) |->
        _normalize_header(CellText(table.rows[1].cells[c]))]

\* The cleaned title of a data row: the text of its last cell under a column
\* headed "title" or "film", "" when it has no such cell
RowTitle(headers, cells) ==
    LET cols == {c \in 1..Len(cells) : c <= Len(headers) /\ headers[c] \in {"title", "film"}}
    IN  IF cols = {} THEN ""
        ELSE _clean_film_title(CellText(cells[CHOOSE c \in cols : \A d \in cols : d <= c]))

RowEmits(headers, cells) == Len(cells) >= 3 /\ RowTitle(headers, cells) # ""

\* The titles a table that parses without error is to yield, in row order
ExpectedTitles(table) ==
    LET headers == NormalizedHeaders(table)
        kept    == SelectSeq(Tail(table.rows), LAMBDA row : RowEmits(headers, row.cells))
    IN  [r \in 1..Len(kept) |-> RowTitle(headers, kept[r].cells)]

\* The accepted tables the loop has been through
ScannedTables ==
    SelectSeq(SubSeq(WikiTables(page), 1, ti - 1), TableAccepted)

\* C16: of the data rows of every table scanned without error, exactly those
\* with at least 3 cells and a non-empty cleaned title under a "title" or
\* "film" column yield a record, in row order, whether or not rank, year or
\* peak parse; every record collected has a non-empty title.
C16_TitleIsSoleFilter ==
    (sc_pc \in {"tables", "returned"} /\ fetch_ok = "ok") =>
        LET sound == SelectSeq(ScannedTables, LAMBDA table : ~TableRaises(table))
            want  == Flatten([i \in 1..Len(sound) |-> ExpectedTitles(sound[i])])
        IN  /\ Len(films_data) = Len(want)
            /\ \A i \in 1..Len(films_data) :
                  /\ DictHas(films_data[i], "title")
                  /\ DictGet(films_data[i], "title") = StrV(want[i])
                  /\ want[i] # ""

\* A scanned table with a short row, a row whose title cleans to nothing and
\* a row whose rank and year do not parse, the last of them emitted
C16_Witness ==
    /\ sc_pc = "returned" /\ fetch_ok = "ok"
    /\ \E t \in 1..Len(ScannedTables) :
          LET table   == ScannedTables[t]
              headers == NormalizedHeaders(table)
          IN  /\ ~TableRaises(table)
              /\ \E r \in 2..Len(table.rows) : Len(table.rows[r].cells) < 3
              /\ \E r \in 2..Len(table.rows) :
                    Len(table.rows[r].cells) >= 3 /\ ~RowEmits(headers, table.rows[r].cells)
    /\ \E i \in 1..Len(films_data) :
          /\ DictGet(films_data[i], "title") = StrV("Jurassic World")
          /\ DictGet(films_data[i], "rank") = NoneV
          /\ DictGet(films_data[i], "year") = NoneV
    /\ \E i \in 1..Len(films_data) :
          DictGet(films_data[i], "title") = StrV("Gone with the Wind")

-----------------------------------------------------------------------------
(* Column resolution in calculate_correlation and prepare_chart_data *)

\* calculate_correlation, keeping its locals x_col and y_col (lines 76-77)
Correlate ==
    /\ rs_pc = "start"
    /\ rs_found' = IF st_data = <<>> THEN <<NoneV, NoneV>>
                   ELSE << _find_column(DataFrameColumns(st_data), rs_x),
                           _find_column(DataFrameColumns(st_data), rs_y) >>
    /\ rs_corr' = calculate_correlation(st_data, rs_x, rs_y)
    /\ rs_pc' = "correlated"
    /\ UNCHANGED <<rs_x, rs_y, rs_chart>>
    /\ UNCHANGED <<routerVars, scraperVars, statsVars, apiVars>>
    /\ UNCHANGED <<pureVars, fieldVars, concVars, chartVars>>

\* prepare_chart_data
ChartData ==
    /\ rs_pc = "correlated"
    /\ rs_chart' = prepare_chart_data(st_data, rs_x, rs_y)
    /\ rs_pc' = "charted"
    /\ UNCHANGED <<rs_x, rs_y, rs_found, rs_corr>>
    /\ UNCHANGED <<routerVars, scraperVars, statsVars, apiVars>>
    /\ UNCHANGED <<pureVars, fieldVars, concVars, chartVars>>

KV(k, v) == [k |-> k, v |-> v]

\* Three records with a text field and two numeric fields under given keys
Keyed(k0, k1, k2) ==
    << <<KV(k0, StrV("first")),  KV(k1, IntV(1)), KV(k2, IntV(1))>>,
       <<KV(k0, StrV("second")), KV(k1, IntV(2)), KV(k2, IntV(3))>>,
       <<KV(k0, StrV("third")),  KV(k1, IntV(3)), KV(k2, IntV(2))>> >>

ResolveInputs ==
    { <<>>,
      _get_sample_films_data,
      Keyed("ranking", "rank", "peak"),
      Keyed("Title", "RANK", "Peak"),
      Keyed("name", "peak_position", "rank_2"),
      Keyed("id", "ra", "pe"),
      Keyed("", "rank", "peak"),
      Keyed("", "seen", "worldwide_gross"),
      Keyed("film", "seen", "worldwide_gross") }

ResolveTargets == {"Rank", "rank", "Title", "Peak", "Gross"}

InitResolve ==
    /\ RouterIdle
    /\ page = <<>>
    /\ ScraperIdle
    /\ st_pc = "idle"
    /\ st_data \in ResolveInputs
    /\ st_year = 0 /\ st_min = 0 /\ st_count = 0 /\ st_earliest = ""
    /\ rs_pc = "start"
    /\ rs_x \in ResolveTargets
    /\ rs_y \in ResolveTargets
    /\ rs_found = <<NoneV, NoneV>> /\ rs_corr = CorrV(0, 1, 1) /\ rs_chart = <<>>
    /\ PureIdle /\ FieldIdle /\ ConcIdle /\ ChartIdle /\ ApiIdle

NextResolve ==
    \/ Correlate
    \/ ChartData

SpecResolve == InitResolve /\ [][NextResolve]_vars

EqualIgnoringCase(key, target) == Lower(key) = Lower(target)

PartialMatch(key, target) ==
    \/ Contains(Lower(target), Lower(key))
    \/ Contains(Lower(key), Lower(target))

\* found is the resolution of target over cols by the exact-then-partial rule
ResolvedAsStated(cols, target, found) ==
    IF \E c \in 1..Len(cols) : EqualIgnoringCase(cols[c], target)
    THEN \E c \in 1..Len(cols) :
            /\ found = StrV(cols[c])
            /\ EqualIgnoringCase(cols[c], target)
            /\ \A d \in 1..(c - 1) : ~EqualIgnoringCase(cols[d], target)
    ELSE IF \E c \in 1..Len(cols) : PartialMatch(cols[c], target)
    THEN \E c \in 1..Len(cols) :
            /\ found = StrV(cols[c])
            /\ PartialMatch(cols[c], target)
            /\ \A d \in 1..(c - 1) : ~PartialMatch(cols[d], target)
    ELSE found = NoneV

\* C17: a target resolves to the first key equal to it ignoring case if there
\* is one, even behind a key that matches in part; else to the first key
\* containing it or contained in it, ignoring case; else to nothing, and with
\* a target unresolved the correlation is 0.0 and the chart data is empty.
C17_ExactThenPartial ==
    (rs_pc = "charted" /\ st_data # <<>>) =>
        LET cols == DataFrameColumns(st_data)
        IN  /\ ResolvedAsStated(cols, rs_x, rs_found[1])
            /\ ResolvedAsStated(cols, rs_y, rs_found[2])
            /\ (rs_found[1] = NoneV \/ rs_found[2] = NoneV) =>
                   rs_corr = CorrV(0, 1, 1) /\ rs_chart = <<>>

\* An exact key chosen behind a key that matches in part, the resolved
\* columns then correlated and charted
C17_Witness ==
    /\ rs_pc = "charted"
    /\ LET cols == DataFrameColumns(st_data)
       IN  \E c \in 1..Len(cols) : \E d \in 1..Len(cols) :
              /\ c < d
              /\ PartialMatch(cols[c], rs_x) /\ ~EqualIgnoringCase(cols[c], rs_x)
              /\ EqualIgnoringCase(cols[d], rs_x)
              /\ rs_found[1] = StrV(cols[d])
    /\ rs_corr # CorrV(0, 1, 1)
    /\ rs_chart # <<>>

-----------------------------------------------------------------------------
(* One call of create_scatterplot_with_regression, step by step, with the   *)
(* figures open in pyplot's registry.  ch_fault is the set of steps at      *)
(* which pandas or matplotlib raises an Exception during this call.         *)

FaultPoints ==
    {"frame", "subplots", "draw", "savefig", "error_subplots", "error_text", "error_savefig"}

\* The message of the early return taken at lines 32-50, "" when none is
ChartPrecheck(data, x_col, y_col) ==
    IF data = <<>> THEN "No data provided"
    ELSE IF ~(\E i \in 1..Len(DataFrameColumns(data)) : DataFrameColumns(data)[i] = x_col)
            \/ ~(\E i \in 1..Len(DataFrameColumns(data)) : DataFrameColumns(data)[i] = y_col)
    THEN "Columns '" \o x_col \o "' or '" \o y_col \o "' not found"
    ELSE IF Len(NumericPairs(data, x_col, y_col)) < 2
    THEN "Insufficient valid data points"
    ELSE ""

chartFrame ==
    /\ UNCHANGED <<ch_data, ch_fault, ch_before>>
    /\ UNCHANGED <<routerVars, scraperVars, statsVars, apiVars>>
    /\ UNCHANGED <<pureVars, fieldVars, resolveVars, concVars>>

\* Lines 32-50: the checks made before any figure exists
Precheck ==
    /\ ch_pc = "start"
    /\ IF "frame" \in ch_fault /\ ch_data.data # <<>>
       THEN ch_msg' = "Error: frame" /\ ch_pc' = "error_chart"
       ELSE IF ChartPrecheck(ch_data.data, ch_data.x_col, ch_data.y_col) # ""
       THEN /\ ch_msg' = ChartPrecheck(ch_data.data, ch_data.x_col, ch_data.y_col)
            /\ ch_pc' = "error_chart"
       ELSE ch_msg' = "" /\ ch_pc' = "subplots"
    /\ UNCHANGED <<open_figs, ch_result>>
    /\ chartFrame

\* Line 53: plt.subplots registers a new figure
Subplots ==
    /\ ch_pc = "subplots"
    /\ IF "subplots" \in ch_fault
       THEN ch_msg' = "Error: subplots" /\ ch_pc' = "error_chart" /\ UNCHANGED open_figs
       ELSE open_figs' = open_figs + 1 /\ ch_pc' = "draw" /\ UNCHANGED ch_msg
    /\ UNCHANGED ch_result
    /\ chartFrame

\* Lines 56-76 and the handler of lines 81-83, which goes on to the error
\* chart and leaves the figure of line 53 as it is
Draw ==
    /\ ch_pc = "draw"
    /\ IF "draw" \in ch_fault
       THEN ch_msg' = "Error: draw" /\ ch_pc' = "error_chart"
       ELSE ch_pc' = "savefig" /\ UNCHANGED ch_msg
    /\ UNCHANGED <<open_figs, ch_result>>
    /\ chartFrame

\* _fig_to_base64 (lines 172-199): plt.close(fig) on both paths
FigToBase64 ==
    /\ ch_pc = "savefig"
    /\ open_figs' = open_figs - 1
    /\ ch_result' = IF "savefig" \in ch_fault THEN MinimalImage
                    ELSE DataUri("<scatter " \o ch_data.y_col \o " vs " \o ch_data.x_col \o ">")
    /\ ch_pc' = "returned"
    /\ UNCHANGED ch_msg
    /\ chartFrame

\* _create_error_chart, line 204, and its handler (lines 215-216)
ErrorSubplots ==
    /\ ch_pc = "error_chart"
    /\ IF "error_subplots" \in ch_fault
       THEN ch_result' = MinimalImage /\ ch_pc' = "returned" /\ UNCHANGED open_figs
       ELSE open_figs' = open_figs + 1 /\ ch_pc' = "error_text" /\ UNCHANGED ch_result
    /\ UNCHANGED ch_msg
    /\ chartFrame

\* _create_error_chart, lines 205-211, and its handler, which returns the
\* minimal image and leaves the figure of line 204 as it is
ErrorText ==
    /\ ch_pc = "error_text"
    /\ IF "error_text" \in ch_fault
       THEN ch_result' = MinimalImage /\ ch_pc' = "returned"
       ELSE ch_pc' = "error_savefig" /\ UNCHANGED ch_result
    /\ UNCHANGED <<open_figs, ch_msg>>
    /\ chartFrame

\* _fig_to_base64 called at line 213
ErrorFigToBase64 ==
    /\ ch_pc = "error_savefig"
    /\ open_figs' = open_figs - 1
    /\ ch_result' = IF "error_savefig" \in ch_fault THEN MinimalImage
                    ELSE _create_error_chart(ch_msg)
    /\ ch_pc' = "returned"
    /\ UNCHANGED ch_msg
    /\ chartFrame

ChartCall(data, x_col, y_col) == [data |-> data, x_col |-> x_col, y_col |-> y_col]

ChartInputs ==
    { ChartCall(<<>>, "Rank", "Peak"),
      ChartCall(prepare_chart_data(_get_sample_films_data, "Rank", "Peak"), "Rank", "Peak"),
      ChartCall(Keyed("id", "rank", "peak"), "Rank", "Peak"),
      ChartCall(<< <<KV("Rank", FloatV(1)), KV("Peak", FloatV(1))>> >>, "Rank", "Peak") }

InitChart ==
    /\ RouterIdle
    /\ page = <<>>
    /\ ScraperIdle
    /\ StatsIdle
    /\ ch_pc = "start"
    /\ ch_data \in ChartInputs
    /\ ch_fault \in SUBSET FaultPoints
    /\ ch_before \in 0..MaxOpenBefore
    /\ open_figs = ch_before
    /\ ch_result = "" /\ ch_msg = ""
    /\ PureIdle /\ FieldIdle /\ ResolveIdle /\ ConcIdle /\ ApiIdle

NextChart ==
    \/ Precheck
    \/ Subplots
    \/ Draw
    \/ FigToBase64
    \/ ErrorSubplots
    \/ ErrorText
    \/ ErrorFigToBase64

SpecChart == InitChart /\ [][NextChart]_vars

\* C13: when a render call has returned, by whichever path, as many figures
\* are open as were before the call.
C13_FiguresReleased ==
    ch_pc = "returned" => open_figs = ch_before

-----------------------------------------------------------------------------
(* api/index.py, analyze_data: the POST endpoint around process_analysis_task *)

\* An upload or a form field: absent, or a text with what json.loads makes
\* of it (valid = FALSE: JSONDecodeError); utf8 = FALSE: bytes that
\* content.decode('utf-8') rejects
Absent == [present |-> FALSE, utf8 |-> TRUE, text |-> "", valid |-> FALSE,
           json |-> Task(StrV(""), <<>>)]

Doc(text, valid, json) ==
    [present |-> TRUE, utf8 |-> TRUE, text |-> text, valid |-> valid, json |-> json]

PlainDoc(text) == Doc(text, FALSE, Task(StrV(""), <<>>))

FilmsDoc ==
    Doc("{\"task\": \"Scrape the list of highest grossing films from Wikipedia\", \"questions\": [\"How many $2 bn movies were released before 2000?\", \"Draw a Scatterplot of Rank and Peak\"]}",
        TRUE,
        Task(StrV("Scrape the list of highest grossing films from Wikipedia"),
             << StrV("How many $2 bn movies were released before 2000?"),
                StrV("Draw a Scatterplot of Rank and Peak") >>))

DatabaseDoc ==
    Doc("{\"task\": \"Query the sales Database\", \"questions\": [\"count the rows\"]}",
        TRUE,
        Task(StrV("Query the sales Database"), <<StrV("count the rows")>>))

ListDoc ==
    Doc("[1, 2]", TRUE,
        [is_dict |-> FALSE, has_task |-> FALSE, task |-> NoneV, questions |-> <<>>])

BinaryDoc ==
    [present |-> TRUE, utf8 |-> FALSE, text |-> "", valid |-> FALSE,
     json |-> Task(StrV(""), <<>>)]

\* Lines 96-100: json.loads, and {"task": task_content} for text that is not JSON
ParseTask(doc) == IF doc.valid THEN doc.json ELSE Task(StrV(doc.text), <<>>)

\* str(e) of the HTTPException raised at line 91: "400: No data provided"
\* in Starlette releases that define __str__, "" in those that do not
HttpExceptionTexts == {"400: No data provided", ""}

HttpError(status, detail) == ap_status' = status /\ ap_detail' = detail /\ ap_pc' = "responded"

\* Lines 107-109: any Exception raised inside the try block, the 400 of
\* line 91 included, leaves as a 500 whose detail wraps str(e)
AnalysisFailed(text) == HttpError(500, "Analysis failed: " \o text)

\* Lines 83-103 up to the call of process_analysis_task
ApiReceive ==
    /\ ap_pc = "start"
    /\ IF ap_file.present
       THEN IF ap_file.utf8
            THEN /\ task_data' = ParseTask(ap_file)
                 /\ pc' = "start"
                 /\ ap_pc' = "processing"
                 /\ UNCHANGED <<ap_status, ap_detail>>
            ELSE /\ AnalysisFailed("'utf-8' codec can't decode byte")
                 /\ UNCHANGED <<task_data, pc>>
       ELSE IF ap_data.present /\ ap_data.text # ""
       THEN /\ task_data' = ParseTask(ap_data)
            /\ pc' = "start"
            /\ ap_pc' = "processing"
            /\ UNCHANGED <<ap_status, ap_detail>>
       ELSE /\ \E text \in HttpExceptionTexts : AnalysisFailed(text)
            /\ UNCHANGED <<task_data, pc>>
    /\ UNCHANGED <<ap_file, ap_data>>
    /\ UNCHANGED <<domain, qi, results, returned, raised>>
    /\ UNCHANGED <<scraperVars, statsVars, auxVars>>

\* Lines 103-109 once process_analysis_task is over
ApiRespond ==
    /\ ap_pc = "processing"
    /\ pc = "done"
    /\ IF raised
       THEN AnalysisFailed("")
       ELSE ap_status' = 200 /\ ap_detail' = "" /\ ap_pc' = "responded"
    /\ UNCHANGED <<ap_file, ap_data>>
    /\ UNCHANGED <<routerVars, scraperVars, statsVars, auxVars>>

Uploads == {Absent, FilmsDoc, PlainDoc("Review a film"), BinaryDoc}

Forms == {Absent, PlainDoc(""), FilmsDoc, DatabaseDoc, ListDoc, PlainDoc("WIKIPEDIA FILM DATABASE")}

InitApi ==
    /\ RouterIdle
    /\ page \in RouterPages
    /\ ScraperIdle
    /\ StatsIdle
    /\ AuxIdle
    /\ ap_pc = "start"
    /\ ap_file \in Uploads
    /\ ap_data \in Forms
    /\ ap_status = 0 /\ ap_detail = ""

NextApi ==
    \/ ApiReceive
    \/ Classify
    \/ FetchOK
    \/ FetchFail
    \/ ScanTable
    \/ ScrapeReturn
    \/ AnswerQuestion
    \/ ReturnFilms
    \/ DatabaseTask
    \/ GenericTask
    \/ ApiRespond

SpecApi == InitApi /\ [][NextApi]_vars

\* C18: a POST with neither a file nor form data is answered with status 400
\* and detail "No data provided", not with a 500, and neither task
\* processing nor a fetch is started for it.
C18_NoDataIs400 ==
    (ap_pc = "responded" /\ ~ap_file.present /\ ~ap_data.present) =>
        /\ ap_status = 400
        /\ ap_detail = "No data provided"
        /\ pc = "idle"
        /\ fetches = 0

-----------------------------------------------------------------------------
(* Requests handled concurrently.  index.py:54-56 builds one DataProcessor, *)
(* one WebScraper and one ChartGenerator for the whole process; the          *)
(* WebScraper holds one requests.Session (web_scraper.py:15) and every       *)
(* films request calls session.get on it, on a thread of the executor        *)
(* (lines 27-28, 38).  session is the Session's cookie jar, as the set of    *)
(* requests whose responses have stored cookies in it.                       *)

Requests == 1..NumRequests

concFrame ==
    /\ UNCHANGED rq_kind
    /\ UNCHANGED <<routerVars, scraperVars, statsVars, apiVars>>
    /\ UNCHANGED <<pureVars, fieldVars, resolveVars, chartVars>>

\* index.py:122-124, 153, 157: only a films request goes to the scraper
RqClassify(r) ==
    /\ rq_pc[r] = "start"
    /\ rq_pc' = [rq_pc EXCEPT ![r] = IF rq_kind[r] = "films" THEN "scrape" ELSE "answer"]
    /\ UNCHANGED <<session, sess_wrote, sess_read>>
    /\ concFrame

\* session.get, first half: the request is prepared from the Session's
\* headers and cookies and sent
RqSend(r) ==
    /\ rq_pc[r] = "scrape"
    /\ sess_read' = sess_read \cup {<<r, w>> : w \in session}
    /\ rq_pc' = [rq_pc EXCEPT ![r] = "wait"]
    /\ UNCHANGED <<session, sess_wrote>>
    /\ concFrame

\* session.get, second half: a response arrives and its cookies are stored
\* in the Session's jar
RqReceive(r) ==
    /\ rq_pc[r] = "wait"
    /\ session' = session \cup {r}
    /\ sess_wrote' = sess_wrote \cup {r}
    /\ rq_pc' = [rq_pc EXCEPT ![r] = "answer"]
    /\ UNCHANGED sess_read
    /\ concFrame

\* session.get raises (transport error, timeout): nothing is stored and the
\* sample data stand in
RqFetchFails(r) ==
    /\ rq_pc[r] = "wait"
    /\ rq_pc' = [rq_pc EXCEPT ![r] = "answer"]
    /\ UNCHANGED <<session, sess_wrote, sess_read>>
    /\ concFrame

\* The questions are answered from the request's own records
RqAnswer(r) ==
    /\ rq_pc[r] = "answer"
    /\ rq_pc' = [rq_pc EXCEPT ![r] = "done"]
    /\ UNCHANGED <<session, sess_wrote, sess_read>>
    /\ concFrame

InitConc ==
    /\ RouterIdle
    /\ page = <<>>
    /\ ScraperIdle
    /\ StatsIdle
    /\ rq_pc = [r \in Requests |-> "start"]
    /\ rq_kind \in [Requests -> {"films", "database", "generic"}]
    /\ session = {} /\ sess_wrote = {} /\ sess_read = {}
    /\ PureIdle /\ FieldIdle /\ ResolveIdle /\ ChartIdle /\ ApiIdle

NextConc ==
    \E r \in Requests :
        \/ RqClassify(r)
        \/ RqSend(r)
        \/ RqReceive(r)
        \/ RqFetchFails(r)
        \/ RqAnswer(r)

SpecConc == InitConc /\ [][NextConc]_vars

\* C12: under every interleaving, no request reads what another request
\* wrote, and no two requests write the same state.
C12_NoSharedMutableState ==
    /\ \A rw \in sess_read : rw[1] = rw[2]
    /\ Cardinality(sess_wrote) <= 1

====
